---------------------------- MODULE Spec2Model ----------------------------
(***************************************************************************)
(* AirQuality-LLM-Advisor: the Streamlit chat application (src/demo.py)    *)
(* and the batch latency script (src/demo2.py).                            *)
(*                                                                         *)
(* Tables are sequences of records.  Entity identifiers (City, StationId)  *)
(* and names (StationName) are integers ordered as the strings are         *)
(* ordered alphabetically.  A raw CSV cell is a record [k, v]: k = "num"   *)
(* (a number v), "date" (a parseable date v), "text" (text that is neither)*)
(* or "nan" (an empty field).                                              *)
(***************************************************************************)
EXTENDS Integers, Sequences, FiniteSets, TLC

VARIABLES
    script,         \* which program runs: "demo" (demo.py) or "demo2" (demo2.py)
    GROQ_API_KEY,   \* TRUE iff the environment holds a key
    files,          \* status of the three CSV files read by load_aqi_datasets
    city_day,       \* raw rows of city_day.csv
    station_day,    \* raw rows of station_day.csv
    stations_csv,   \* raw rows of stations.csv
    log_writable,   \* whether LOG_FILE (chat_log.csv) can be opened for append
    pc,             \* position of the running script
    cache,          \* st.cache_data entry of load_aqi_datasets
    result,         \* main()'s local `result` of the current script run
    shown,          \* st.error / print output reporting a failure
    alert,          \* tier of the proactive alert rendered in this run
    messages,       \* st.session_state["messages"] ([set |-> FALSE] before creation)
    widget,         \* the widget input that triggered the current script run
    chat_log,       \* rows appended to chat_log.csv
    requests,       \* requests issued to the ChatClient, in order, each with the
                    \* endpoint's outcome ("ok" or the failure reason)
    uncaught,       \* TRUE iff an exception escaped the script
    runs,           \* number of script runs of the session
    queries,        \* demo2: the `queries` list read from QUERIES_FILE
    queries_file,   \* demo2: lines of QUERIES_FILE ([exists |-> FALSE] if absent)
    i,              \* demo2: loop index (0-based, as enumerate gives it)
    call,           \* demo2: (response, trt) returned by the call in flight
    out_log,        \* demo2: OUTPUT_LOG_FILE, [headers, rows]
    slept,          \* demo2: number of time.sleep(0.1) calls made
    summary         \* demo2: the final summary

vars == << script, GROQ_API_KEY, files, city_day, station_day, stations_csv,
           log_writable, pc, cache, result, shown, alert, messages, widget,
           chat_log, requests, uncaught, runs, queries, queries_file, i, call,
           out_log, slept, summary >>

(***************************************************************************)
(* Bounds of the model.                                                    *)
(***************************************************************************)
MaxRows == 2        \* rows of a raw day table in the small input family
MaxEntities == 17   \* cities / stations in the wide input family
MaxRuns == 3        \* script runs of an interactive session
MaxLines == 2       \* lines of the batch queries file
MaxLatency == 1     \* largest response time a successful call reports

(***************************************************************************)
(* Program constants.                                                      *)
(***************************************************************************)
NaT == 0            \* pd.to_datetime(errors='coerce') of an unparseable date
NaNName == 0        \* StationName / City of a station the left merge leaves unmatched
CitySampleRows == 9     \* .head(9)
StationSampleRows == 15 \* .head(15)
NamePreview == 5        \* cities[:5], stations[:5]
NaNLabel == 0       \* idxmax of a group whose dates are all NaT (row labels are 1..n)

(***************************************************************************)
(* Sequence helpers.                                                       *)
(***************************************************************************)
Range(s) == { s[k] : k \in 1..Len(s) }

\* df.head(n)
HeadRows(s, n) == IF Len(s) <= n THEN s ELSE SubSeq(s, 1, n)

RECURSIVE SortedSeqOf(_)
SortedSeqOf(S) ==
    IF S = {} THEN << >>
    ELSE LET m == CHOOSE x \in S : \A y \in S : x <= y
         IN  << m >> \o SortedSeqOf(S \ {m})


(***************************************************************************)
(* pandas operations used by load_aqi_datasets.                            *)
(***************************************************************************)
\* pd.to_datetime(col, errors='coerce') on one cell.
ToDatetime(cell) == IF cell.k = "date" THEN cell.v ELSE NaT

\* df['Date'] = pd.to_datetime(df['Date'], errors='coerce')
ParseDates(table) ==
    [k \in 1..Len(table) |-> [table[k] EXCEPT !.Date = ToDatetime(@)]]

\* The group keys of df.groupby(key), which pandas sorts.
GroupKeys(table, key) == SortedSeqOf({ table[k][key] : k \in 1..Len(table) })

\* A variant of GroupIdxmax in which the last row holding the maximum wins.
GroupIdxmaxLast(table, key, id) ==
    LET idxs == { k \in 1..Len(table) : table[k][key] = id /\ table[k].Date # NaT }
    IN  IF idxs = {} THEN NaNLabel
        ELSE CHOOSE k \in idxs :
                \A j \in idxs : \/ table[j].Date < table[k].Date
                                 \/ (table[j].Date = table[k].Date /\ k >= j)

\* idxmax of one group's Date: NaT is skipped, the first row holding the
\* maximum wins; a group with no valid date has no label.
GroupIdxmax(table, key, id) ==
    LET idxs == { k \in 1..Len(table) : table[k][key] = id /\ table[k].Date # NaT }
    IN  IF idxs = {} THEN NaNLabel
        ELSE CHOOSE k \in idxs :
                \A j \in idxs : \/ table[j].Date < table[k].Date
                                 \/ (table[j].Date = table[k].Date /\ k <= j)

\* df.groupby(key)['Date'].idxmax()
GroupbyIdxmax(table, key) ==
    LET keys == GroupKeys(table, key)
    IN  [g \in 1..Len(keys) |-> GroupIdxmax(table, key, keys[g])]

\* df.loc[labels] raises KeyError when a label is missing.
LocRaises(labels) == \E g \in 1..Len(labels) : labels[g] = NaNLabel

\* df.loc[labels]: the labelled rows, in the order of the labels; each row
\* keeps its label (field idx), the row's position in the source file.
Loc(table, labels) ==
    [g \in 1..Len(labels) |-> ("idx" :> labels[g]) @@ table[labels[g]]]

\* df.dropna(subset=['AQI'])
DropnaAQI(df) ==
    LET HasAQI(r) == r.AQI.k # "nan"
    IN  SelectSeq(df, HasAQI)

\* A variant of ToNumericFillna that fills the missing values with -1.
ToNumericFillnaMinusOne(cell) == IF cell.k = "num" THEN cell.v ELSE -1

\* pd.to_numeric(cell, errors='coerce') followed by fillna(0).
ToNumericFillna(cell) == IF cell.k = "num" THEN cell.v ELSE 0

\* df['AQI'] = pd.to_numeric(df['AQI'], errors='coerce').fillna(0)
CoerceAQI(df) ==
    [k \in 1..Len(df) |-> [df[k] EXCEPT !.AQI = ToNumericFillna(@)]]

\* One left row of left.merge(right, on='StationId', how='left'): one output
\* row per matching right row in right order, or one row with missing name
\* and city.  The projection of line 87 drops StationId; the model keeps it
\* and the source label idx as ghost fields that name the row's origin.
MergeRow(l, right) ==
    LET Match(m) == m.StationId = l.StationId
        ms == SelectSeq(right, Match)
        Row(name, city) == [idx |-> l.idx,
                            StationId |-> l.StationId, StationName |-> name,
                            City |-> city, Date |-> l.Date, AQI |-> l.AQI]
    IN  IF ms = << >> THEN << Row(NaNName, NaNName) >>
        ELSE [k \in 1..Len(ms) |-> Row(ms[k].StationName, ms[k].City)]

RECURSIVE MergeLeft(_, _)
MergeLeft(left, right) ==
    IF left = << >> THEN << >>
    ELSE MergeRow(Head(left), right) \o MergeLeft(Tail(left), right)

\* Series.idxmax() of the AQI column: the position of the first maximum.
IdxmaxAQI(df) ==
    CHOOSE k \in 1..Len(df) :
        \A j \in 1..Len(df) : df[j].AQI < df[k].AQI \/ (df[j].AQI = df[k].AQI /\ k <= j)

\* Order of sort_values: ascending, missing values last.
KeyLe(a, b) == b = NaNName \/ (a # NaNName /\ a <= b)

\* Insert row r into the sorted sequence s behind the rows not greater than it.
RECURSIVE InsertSorted(_, _, _)
InsertSorted(s, r, key) ==
    IF s = << >> THEN << r >>
    ELSE IF KeyLe(Head(s)[key], r[key])
         THEN << Head(s) >> \o InsertSorted(Tail(s), r, key)
         ELSE << r >> \o s

\* df.sort_values(by=key): rows with equal keys keep their order on the
\* inputs enumerated here (numpy sorts short arrays by insertion).
RECURSIVE SortValues(_, _)
SortValues(df, key) ==
    IF df = << >> THEN << >>
    ELSE InsertSorted(SortValues(SubSeq(df, 1, Len(df) - 1), key), df[Len(df)], key)

\* df.drop_duplicates(subset=[key]): the first row of each key is kept.
DropDuplicates(df, key) ==
    LET keep == { k \in 1..Len(df) : \A j \in 1..(k - 1) : df[j][key] # df[k][key] }
        pos  == SortedSeqOf(keep)
    IN  [n \in 1..Len(pos) |-> df[pos[n]]]

\* df[col].unique().tolist()
UniqueList(df, col) ==
    LET d == DropDuplicates(df, col)
    IN  [n \in 1..Len(d) |-> d[n][col]]

\* df.to_markdown(index=False): a header row and one text row per table row.
ToMarkdown(df, cols) ==
    [present |-> TRUE, header |-> cols,
     body |-> [k \in 1..Len(df) |-> [c \in 1..Len(cols) |-> df[k][cols[c]]]]]

\* The context value None.
NoneContext == [present |-> FALSE, header |-> << >>, body |-> << >>]

CityColumns == << "City", "Date", "AQI" >>
StationColumns == << "StationName", "City", "Date", "AQI" >>


(***************************************************************************)
(* load_aqi_datasets (src/demo.py 61-124).                                 *)
(***************************************************************************)
\* Lines 79-81: the latest row of every city, rows without AQI dropped,
\* AQI made numeric.  Defined when no group lacks a valid date.
LatestCityData(cd) ==
    CoerceAQI(DropnaAQI(Loc(cd, GroupbyIdxmax(cd, "City"))))

\* Lines 84-88: the same per station, left-merged with the station metadata.
LatestStationData(sd, st) ==
    CoerceAQI(DropnaAQI(MergeLeft(Loc(sd, GroupbyIdxmax(sd, "StationId")), st)))

\* Line 94: the row of the first maximum AQI.
WorstCityRow(lcd) == lcd[IdxmaxAQI(lcd)]

\* A variant of SampleCities that takes ten other cities.
SampleCitiesTen(lcd, worst) ==
    LET Other(r) == r.City # worst.City
    IN  HeadRows(SortValues(SelectSeq(lcd, Other), "City"), CitySampleRows + 1)

\* Line 97: the other cities, by name, the first nine.
SampleCities(lcd, worst) ==
    LET Other(r) == r.City # worst.City
    IN  HeadRows(SortValues(SelectSeq(lcd, Other), "City"), CitySampleRows)

\* A variant of ContextCities that samples the cities by name alone.
ContextCitiesByName(lcd) == HeadRows(SortValues(lcd, "City"), CitySampleRows + 1)

\* Line 100: the worst city first, then the sample, one row per city.
ContextCities(lcd) ==
    LET worst == WorstCityRow(lcd)
    IN  DropDuplicates(<< worst >> \o SampleCities(lcd, worst), "City")

\* A variant of ContextStations that does not sort.
ContextStationsUnsorted(lsd) == HeadRows(lsd, StationSampleRows)

\* Line 103: the first fifteen stations by name.
ContextStations(lsd) == HeadRows(SortValues(lsd, "StationName"), StationSampleRows)

\* Lines 119-124: what the two except clauses return.
LoadFailure(kind) ==
    [error |-> kind, city_context |-> NoneContext, station_context |-> NoneContext,
     latest_city_data |-> << >>, latest_station_data |-> << >>,
     cities |-> << >>, stations |-> << >>]

\* Lines 70-72: pd.read_csv of the three files in order; the first file
\* that cannot be read decides the exception.
ReadError(fs) ==
    LET order == << "city_day", "station_day", "stations" >>
        bad   == { k \in 1..3 : fs[order[k]] # "ok" }
    IN  IF bad = {} THEN "none"
        ELSE LET first == CHOOSE k \in bad : \A j \in bad : k <= j
             IN  IF fs[order[first]] = "missing" THEN "FileNotFoundError" ELSE "Exception"

\* The whole function: the tuple it returns, with the exception it caught.
LoadAqiDatasets(fs, cd_raw, sd_raw, st) ==
    IF ReadError(fs) # "none" THEN LoadFailure(ReadError(fs))
    ELSE
    LET cd == ParseDates(cd_raw)
        sd == ParseDates(sd_raw)
    IN  IF LocRaises(GroupbyIdxmax(cd, "City")) \/ LocRaises(GroupbyIdxmax(sd, "StationId"))
        THEN LoadFailure("Exception")                  \* KeyError at line 79 or 84
        ELSE
        LET lcd == LatestCityData(cd)
            lsd == LatestStationData(sd, st)
        IN  IF lcd = << >>
            THEN LoadFailure("Exception")              \* idxmax of an empty column, line 94
            ELSE [error |-> "none",
                  city_context |-> ToMarkdown(ContextCities(lcd), CityColumns),
                  station_context |-> ToMarkdown(ContextStations(lsd), StationColumns),
                  latest_city_data |-> lcd,
                  latest_station_data |-> lsd,
                  cities |-> UniqueList(lcd, "City"),
                  stations |-> UniqueList(lsd, "StationName")]


(***************************************************************************)
(* Texts.  A text is [kind, arg]: the template it was built from and the   *)
(* value embedded in it.                                                   *)
(***************************************************************************)
Text(kind, arg) == [kind |-> kind, arg |-> arg]

\* A line of text input: its content and whether blanks surround it.
Line(pad, text) == [pad |-> pad, text |-> text]

\* [q.strip() for q in lines if q.strip()]  (demo.py 294, demo2.py 102)
StripLines(lines) ==
    LET NonBlank(l) == l.text # ""
        kept == SelectSeq(lines, NonBlank)
    IN  [k \in 1..Len(kept) |-> kept[k].text]

MODEL_NAME == "llama-3.1-8b-instant"

(***************************************************************************)
(* src/demo.py: logging, prompt, chat call, alert.                         *)
(***************************************************************************)
LogHeader == [role |-> "Role", content |-> Text("Content", "")]

\* log_chat_message: append a row, after the header when the file is new;
\* a failure to write is swallowed (st.warning) and leaves the file alone.
LogChatMessage(log, writable, role, content) ==
    IF ~writable THEN log
    ELSE (IF log = << >> THEN << LogHeader >> ELSE log)
         \o << [role |-> role, content |-> content] >>

\* Lines 140-161: the system prompt of the interactive application.
SystemPrompt(res) ==
    [template |-> "grounded", model |-> MODEL_NAME,
     city_context |-> res.city_context, station_context |-> res.station_context,
     n_cities |-> Len(res.cities), n_stations |-> Len(res.stations),
     city_preview |-> HeadRows(res.cities, NamePreview),
     station_preview |-> HeadRows(res.stations, NamePreview),
     rules |-> 4]

\* ', '.join(names) raises TypeError when a name is the float NaN.
JoinRaises(names) == \E k \in 1..Len(names) : names[k] = NaNName

\* A variant of get_groq_response that lets the ChatClient's exception pass.
GetGroqResponseRaising(key, res, user_query, outcome) ==
    IF ~key
    THEN [reply |-> Text("no_key", "GROQ_API_KEY not found"), sent |-> << >>, raised |-> FALSE]
    ELSE IF JoinRaises(HeadRows(res.stations, NamePreview))
    THEN [reply |-> Text("api_error", "TypeError"), sent |-> << >>, raised |-> FALSE]
    ELSE LET req == [model |-> MODEL_NAME, system |-> SystemPrompt(res),
                      user |-> user_query, outcome |-> outcome]
         IN  [reply  |-> Text("reply", user_query),
              sent   |-> << req >>,
              raised |-> outcome # "ok"]

\* A variant of get_groq_response without the check of the key.
GetGroqResponseUnchecked(key, res, user_query, outcome) ==
    LET req == [model |-> MODEL_NAME, system |-> SystemPrompt(res),
                user |-> user_query, outcome |-> outcome]
    IN  [reply  |-> IF outcome = "ok" THEN Text("reply", user_query)
                    ELSE Text("api_error", outcome),
         sent   |-> << req >>,
         raised |-> FALSE]

\* get_groq_response (129-177): the text returned, the requests issued to
\* the ChatClient, and whether an exception left the function.  `outcome`
\* is what the endpoint does with the request: "ok" or the failure reason.
GetGroqResponse(key, res, user_query, outcome) ==
    IF ~key
    THEN [reply |-> Text("no_key", "GROQ_API_KEY not found"), sent |-> << >>, raised |-> FALSE]
    ELSE IF JoinRaises(HeadRows(res.stations, NamePreview))
    THEN [reply |-> Text("api_error", "TypeError"), sent |-> << >>, raised |-> FALSE]
    ELSE LET req == [model |-> MODEL_NAME, system |-> SystemPrompt(res),
                      user |-> user_query, outcome |-> outcome]
         IN  [reply  |-> IF outcome = "ok" THEN Text("reply", user_query)
                         ELSE Text("api_error", outcome),
              sent   |-> << req >>,
              raised |-> FALSE]

\* A variant of AlertTier whose thresholds are exclusive.
AlertTierExclusive(aqi_val) ==
    IF aqi_val > 401 THEN "SEVERE"
    ELSE IF aqi_val > 301 THEN "VERY_POOR"
    ELSE IF aqi_val > 201 THEN "POOR"
    ELSE IF aqi_val > 101 THEN "MODERATE"
    ELSE "GOOD"

\* Lines 211-225: the branch taken for aqi_val.
AlertTier(aqi_val) ==
    IF aqi_val >= 401 THEN "SEVERE"
    ELSE IF aqi_val >= 301 THEN "VERY_POOR"
    ELSE IF aqi_val >= 201 THEN "POOR"
    ELSE IF aqi_val >= 101 THEN "MODERATE"
    ELSE "GOOD"

Outcomes == { "ok", "timeout" }
QueryTexts == { "q1", "q2" }

NoWidget == [kind |-> "none", query |-> "", lines |-> << >>]
ChatInput(q) == [kind |-> "chat", query |-> q, lines |-> << >>]
BatchButton(lines) == [kind |-> "batch", query |-> "", lines |-> lines]

\* What a user can do to trigger a script run.
WidgetInputs ==
    { NoWidget } \cup { ChatInput(q) : q \in QueryTexts }
    \cup { BatchButton(<< Line(TRUE, "") >>),
           BatchButton(<< Line(FALSE, "q1"), Line(FALSE, ""), Line(TRUE, "q2") >>) }

\* Lines 302-316: the loop of the sidebar's batch tool over the queries.
RECURSIVE BatchToolLoop(_, _, _, _, _, _, _)
BatchToolLoop(qs, outs, key, res, writable, log, reqs) ==
    IF qs = << >> THEN [chat_log |-> log, requests |-> reqs, raised |-> FALSE]
    ELSE LET log1 == LogChatMessage(log, writable, "batch_user", Text("query", Head(qs)))
             r    == GetGroqResponse(key, res, Head(qs), Head(outs))
         IN  IF r.raised
             THEN [chat_log |-> log1, requests |-> reqs \o r.sent, raised |-> TRUE]
             ELSE BatchToolLoop(Tail(qs), Tail(outs), key, res, writable,
                                LogChatMessage(log1, writable, "batch_assistant", r.reply),
                                reqs \o r.sent)

NoResult == LoadFailure("unset")
Unset == [set |-> FALSE, list |-> << >>]

demo2_vars == << queries, queries_file, i, call, out_log, slept, summary >>
input_vars == << script, GROQ_API_KEY, files, city_day, station_day, stations_csv, log_writable >>

(***************************************************************************)
(* src/demo.py main(): one script run, step by step.                       *)
(***************************************************************************)
\* Line 190: the cached call of load_aqi_datasets; st.error is replayed.
LoadDatasets ==
    /\ script = "demo" /\ pc = "start"
    /\ result' = IF cache.set THEN cache.value
                 ELSE LoadAqiDatasets(files, city_day, station_day, stations_csv)
    /\ cache' = [set |-> TRUE, value |-> result']
    /\ shown' = shown \cup
                (IF result'.error = "FileNotFoundError" THEN { "Missing file" }
                 ELSE IF result'.error = "Exception" THEN { "Error loading data" }
                 ELSE {})
    /\ pc' = "gate"
    /\ UNCHANGED << input_vars, alert, messages, widget, chat_log, requests,
                    uncaught, runs, demo2_vars >>

\* A variant of Gate that returns only when `result is None`, which the
\* tuple returned by load_aqi_datasets never is.
GateNoneOnly ==
    /\ script = "demo" /\ pc = "gate"
    /\ pc' = "alert"
    /\ UNCHANGED << input_vars, cache, result, shown, alert, messages, widget,
                    chat_log, requests, uncaught, runs, demo2_vars >>

\* Lines 191-192: return when the latest city table is empty.
Gate ==
    /\ script = "demo" /\ pc = "gate"
    /\ pc' = IF result.latest_city_data = << >> THEN "idle" ELSE "alert"
    /\ UNCHANGED << input_vars, cache, result, shown, alert, messages, widget,
                    chat_log, requests, uncaught, runs, demo2_vars >>

\* Lines 202-225: the proactive alert for the worst city.  idxmax of an
\* empty table raises, and nothing in main catches it.
ProactiveAlert ==
    /\ script = "demo" /\ pc = "alert"
    /\ IF result.latest_city_data = << >>
       THEN uncaught' = TRUE /\ pc' = "idle" /\ UNCHANGED alert
       ELSE /\ alert' = AlertTier(WorstCityRow(result.latest_city_data).AQI)
            /\ pc' = "session"
            /\ UNCHANGED uncaught
    /\ UNCHANGED << input_vars, cache, result, shown, messages, widget,
                    chat_log, requests, runs, demo2_vars >>

\* Lines 232-235: the chat history is created once per session.
InitSession ==
    /\ script = "demo" /\ pc = "session"
    /\ messages' = IF messages.set THEN messages
                   ELSE [set |-> TRUE,
                         list |-> << [role |-> "assistant", content |-> Text("greeting", "")] >>]
    /\ pc' = "chat"
    /\ UNCHANGED << input_vars, cache, result, shown, alert, widget,
                    chat_log, requests, uncaught, runs, demo2_vars >>

\* Lines 247-261: the chat turn, when the run was triggered by a chat input.
ChatTurn ==
    /\ script = "demo" /\ pc = "chat"
    /\ IF widget.kind # "chat"
       THEN /\ pc' = "sidebar"
            /\ UNCHANGED << messages, chat_log, requests, uncaught, shown >>
       ELSE \E outcome \in Outcomes :
            LET user == [role |-> "user", content |-> Text("query", widget.query)]
                log1 == LogChatMessage(chat_log, log_writable, "user", user.content)
                r    == GetGroqResponse(GROQ_API_KEY,
                                        result, widget.query, outcome)
            IN  /\ requests' = requests \o r.sent
                /\ shown' = IF log_writable THEN shown ELSE shown \cup { "Could not log message" }
                /\ IF r.raised
                   THEN /\ messages' = [messages EXCEPT !.list = Append(@, user)]
                        /\ chat_log' = log1
                        /\ uncaught' = TRUE
                        /\ pc' = "idle"
                   ELSE /\ messages' = [messages EXCEPT !.list =
                              @ \o << user, [role |-> "assistant", content |-> r.reply] >>]
                        /\ chat_log' = LogChatMessage(log1, log_writable, "assistant", r.reply)
                        /\ UNCHANGED uncaught
                        /\ pc' = "sidebar"
    /\ UNCHANGED << input_vars, cache, result, alert, widget, runs, demo2_vars >>

\* Lines 264-325: the sidebar; the batch tool runs when its button was pressed.
Sidebar ==
    /\ script = "demo" /\ pc = "sidebar"
    /\ IF widget.kind # "batch"
       THEN UNCHANGED << chat_log, requests, uncaught, shown >>
       ELSE LET qs == StripLines(widget.lines)
            IN  IF qs = << >>
                THEN /\ shown' = shown \cup { "Please enter queries" }
                     /\ UNCHANGED << chat_log, requests, uncaught >>
                ELSE \E outs \in [1..Len(qs) -> Outcomes] :
                     LET b == BatchToolLoop(qs, outs, GROQ_API_KEY, result,
                                            log_writable, chat_log, requests)
                     IN  /\ chat_log' = b.chat_log
                         /\ requests' = b.requests
                         /\ uncaught' = (uncaught \/ b.raised)
                         /\ shown' = IF log_writable THEN shown
                                     ELSE shown \cup { "Could not log message" }
    /\ pc' = "idle"
    /\ UNCHANGED << input_vars, cache, result, alert, messages, widget, runs, demo2_vars >>

\* A widget interaction: Streamlit runs the script again from the top.
Rerun ==
    /\ script = "demo" /\ pc = "idle" /\ runs < MaxRuns
    /\ \E w \in WidgetInputs : widget' = w
    /\ runs' = runs + 1
    /\ pc' = "start"
    /\ alert' = "none"
    /\ shown' = {}
    /\ UNCHANGED << input_vars, cache, result, messages, chat_log, requests,
                    uncaught, demo2_vars >>


(***************************************************************************)
(* src/demo2.py: the batch latency script.                                 *)
(***************************************************************************)
\* What the endpoint does with one request: it answers in t time units or
\* raises with a reason.
CallOutcomes ==
    { [ok |-> TRUE, t |-> t, reason |-> ""] : t \in 0..MaxLatency }
    \cup { [ok |-> FALSE, t |-> 0, reason |-> "timeout"] }

\* Line 62: the system prompt of the batch script.
MinimalPrompt == [template |-> "minimal", model |-> MODEL_NAME]

\* A variant of get_groq_response_and_time whose request carries no system
\* prompt.
GetGroqResponseAndTimeNoSystem(user_query, outcome) ==
    LET req == [model |-> MODEL_NAME, system |-> [template |-> "none", model |-> MODEL_NAME],
                user |-> user_query,
                outcome |-> IF outcome.ok THEN "ok" ELSE outcome.reason]
    IN  IF outcome.ok
        THEN [response |-> Text("reply", user_query), trt |-> outcome.t, sent |-> << req >>]
        ELSE [response |-> Text("API_ERROR", outcome.reason), trt |-> -1, sent |-> << req >>]

\* get_groq_response_and_time (47-92): (response, trt) and the request issued.
GetGroqResponseAndTime(user_query, outcome) ==
    LET req == [model |-> MODEL_NAME, system |-> MinimalPrompt, user |-> user_query,
                outcome |-> IF outcome.ok THEN "ok" ELSE outcome.reason]
    IN  IF outcome.ok
        THEN [response |-> Text("reply", user_query), trt |-> outcome.t, sent |-> << req >>]
        ELSE [response |-> Text("API_ERROR", outcome.reason), trt |-> -1, sent |-> << req >>]

\* A variant of line 126 that takes a response time of zero for a failure.
StatusOfPositive(trt) == IF trt > 0 THEN "SUCCESS" ELSE "FAILURE"

\* Line 126
StatusOf(trt) == IF trt >= 0 THEN "SUCCESS" ELSE "FAILURE"

\* Line 118: the header line of OUTPUT_LOG_FILE.
OutHeader ==
    [kind |-> "header", Query_ID |-> 0, User_Query |-> "User_Query",
     Response |-> Text("Groq_Response_Content", ""), TRT |-> 0, Status |-> "Status"]

\* Line 131: one result line.
OutRow(id, query, response, trt, status) ==
    [kind |-> "row", Query_ID |-> id, User_Query |-> query,
     Response |-> response, TRT |-> trt, Status |-> status]

\* pd.read_csv(OUTPUT_LOG_FILE): the first line names the columns, the
\* others are the rows.
ReadCsv(lines) == IF lines = << >> THEN << >> ELSE Tail(lines)

\* Line 138: the rows whose response time is not negative.
SuccessfulRuns(df) ==
    LET NonNegative(r) == r.TRT >= 0
    IN  SelectSeq(df, NonNegative)

RECURSIVE SumTRT(_)
SumTRT(df) == IF df = << >> THEN 0 ELSE Head(df).TRT + SumTRT(Tail(df))

\* Series.mean(): the fraction num/den.
MeanTRT(df) == [na |-> FALSE, num |-> SumTRT(df), den |-> Len(df)]

\* The response times of df in ascending order.
RECURSIVE InsertTRT(_, _)
InsertTRT(s, r) ==
    IF s = << >> THEN << r >>
    ELSE IF Head(s).TRT <= r.TRT THEN << Head(s) >> \o InsertTRT(Tail(s), r)
         ELSE << r >> \o s

RECURSIVE SortTRT(_)
SortTRT(df) ==
    IF df = << >> THEN << >> ELSE InsertTRT(SortTRT(Tail(df)), Head(df))

\* Series.median(): the middle value, or the mean of the two middle values.
MedianTRT(df) ==
    LET sorted == SortTRT(df)
        n == Len(sorted)
    IN  IF n % 2 = 1
        THEN [na |-> FALSE, num |-> sorted[(n + 1) \div 2].TRT, den |-> 1]
        ELSE [na |-> FALSE, num |-> sorted[n \div 2].TRT + sorted[n \div 2 + 1].TRT, den |-> 2]

NotAvailable == [na |-> TRUE, num |-> 0, den |-> 1]
NoCall == [response |-> Text("", ""), trt |-> 0]
NoSummary == [printed |-> FALSE, attempted |-> 0, successful |-> 0,
              mean |-> NotAvailable, median |-> NotAvailable]
NoFile == [exists |-> FALSE, lines |-> << >>]

demo_vars == << files, city_day, station_day, stations_csv, log_writable, cache,
                result, alert, messages, widget, chat_log, uncaught, runs >>

\* Lines 19-27: the key check at import; sys.exit(1) without a key.
Import ==
    /\ script = "demo2" /\ pc = "import"
    /\ IF GROQ_API_KEY
       THEN pc' = "main" /\ UNCHANGED shown
       ELSE pc' = "exit" /\ shown' = shown \cup { "FATAL ERROR: GROQ_API_KEY not found" }
    /\ UNCHANGED << script, GROQ_API_KEY, demo_vars, requests, demo2_vars >>

\* Lines 100-111: read the queries; return when the file or the list is empty.
ReadQueries ==
    /\ script = "demo2" /\ pc = "main"
    /\ IF ~queries_file.exists
       THEN /\ shown' = shown \cup { "ERROR: Query file not found" }
            /\ pc' = "returned"
            /\ UNCHANGED queries
       ELSE /\ queries' = StripLines(queries_file.lines)
            /\ IF queries' = << >>
               THEN shown' = shown \cup { "No queries found" } /\ pc' = "returned"
               ELSE UNCHANGED shown /\ pc' = "header"
    /\ UNCHANGED << script, GROQ_API_KEY, demo_vars, requests, queries_file, i,
                    call, out_log, slept, summary >>

\* A variant of WriteHeader that opens the log for appending.
WriteHeaderAppending ==
    /\ script = "demo2" /\ pc = "header"
    /\ out_log' = Append(out_log, OutHeader)
    /\ i' = 0
    /\ pc' = "call"
    /\ UNCHANGED << script, GROQ_API_KEY, demo_vars, requests, shown, queries,
                    queries_file, call, slept, summary >>

\* Lines 113-118: open the log for writing (truncating it) and write the header.
WriteHeader ==
    /\ script = "demo2" /\ pc = "header"
    /\ out_log' = << OutHeader >>
    /\ i' = 0
    /\ pc' = "call"
    /\ UNCHANGED << script, GROQ_API_KEY, demo_vars, requests, shown, queries,
                    queries_file, call, slept, summary >>

\* Line 124: the call for queries[i].
Call ==
    /\ script = "demo2" /\ pc = "call"
    /\ \E outcome \in CallOutcomes :
          LET r == GetGroqResponseAndTime(queries[i + 1], outcome)
          IN  /\ call' = [response |-> r.response, trt |-> r.trt]
              /\ requests' = requests \o r.sent
    /\ pc' = "append"
    /\ UNCHANGED << script, GROQ_API_KEY, demo_vars, shown, queries, queries_file,
                    i, out_log, slept, summary >>

\* Lines 126-131: the status, and the row appended to the log.
AppendRow ==
    /\ script = "demo2" /\ pc = "append"
    /\ out_log' = Append(out_log,
                         OutRow(i + 1, queries[i + 1], call.response, call.trt,
                                StatusOf(call.trt)))
    /\ pc' = "sleep"
    /\ UNCHANGED << script, GROQ_API_KEY, demo_vars, requests, shown, queries,
                    queries_file, i, call, slept, summary >>

\* Line 134, and the loop's next iteration or its end.
Sleep ==
    /\ script = "demo2" /\ pc = "sleep"
    /\ slept' = slept + 1
    /\ i' = i + 1
    /\ pc' = IF i + 1 < Len(queries) THEN "call" ELSE "summary"
    /\ UNCHANGED << script, GROQ_API_KEY, demo_vars, requests, shown, queries,
                    queries_file, call, out_log, summary >>

\* Lines 137-154: the summary over the log read back.
Summary ==
    /\ script = "demo2" /\ pc = "summary"
    /\ LET successful_runs == SuccessfulRuns(ReadCsv(out_log))
       IN  summary' = [printed |-> TRUE,
                       attempted |-> Len(queries),
                       successful |-> Len(successful_runs),
                       mean |-> IF successful_runs # << >>
                                THEN MeanTRT(successful_runs) ELSE NotAvailable,
                       median |-> IF successful_runs # << >>
                                  THEN MedianTRT(successful_runs) ELSE NotAvailable]
    /\ pc' = "done"
    /\ UNCHANGED << script, GROQ_API_KEY, demo_vars, requests, shown, queries,
                    queries_file, i, call, out_log, slept >>

(***************************************************************************)
(* Inputs.                                                                 *)
(***************************************************************************)
AllOk == [f \in { "city_day", "station_day", "stations" } |-> "ok"]

Num(v) == [k |-> "num", v |-> v]
Date(v) == [k |-> "date", v |-> v]
Garbled == [k |-> "text", v |-> 0]
Empty == [k |-> "nan", v |-> 0]

CityRow(c, d, a) == [City |-> c, Date |-> d, AQI |-> a]
StationRow(s, d, a) == [StationId |-> s, Date |-> d, AQI |-> a]
MetaRow(s, n, c) == [StationId |-> s, StationName |-> n, City |-> c]

SeqsUpTo(S, n) == UNION { [1..m -> S] : m \in 0..n }

\* AQI values on both sides of every alert threshold.
AlertAqis == { -5, 0, 100, 101, 200, 201, 300, 301, 400, 401, 500 }

\* Values every variable of the script that does not run keeps.
IdleDemo ==
    /\ files = AllOk /\ city_day = << >> /\ station_day = << >> /\ stations_csv = << >>
    /\ log_writable = TRUE /\ cache = [set |-> FALSE, value |-> NoResult]
    /\ result = NoResult /\ alert = "none" /\ messages = Unset /\ widget = NoWidget
    /\ chat_log = << >> /\ uncaught = FALSE /\ runs = 0

IdleDemo2 ==
    /\ queries = << >> /\ queries_file = NoFile /\ i = 0 /\ call = NoCall
    /\ out_log = << >> /\ slept = 0 /\ summary = NoSummary

\* The application before its first script run.
DemoStart ==
    /\ script = "demo" /\ pc = "start"
    /\ cache = [set |-> FALSE, value |-> NoResult] /\ result = NoResult
    /\ shown = {} /\ alert = "none" /\ messages = Unset /\ widget = NoWidget
    /\ chat_log = << >> /\ requests = << >> /\ uncaught = FALSE /\ runs = 1
    /\ IdleDemo2

\* A session of the application: one city whose AQI lies around the alert
\* thresholds; or a missing key, an unwritable chat log, a station without
\* metadata, an unreadable file.
InitDemo ==
    /\ DemoStart
    /\ \E a \in AlertAqis, env \in { "plain", "no_key", "no_log", "no_meta", "no_aqi" } :
          /\ env # "plain" => a = 201
          /\ GROQ_API_KEY = (env # "no_key")
          /\ log_writable = (env # "no_log")
          /\ city_day = << CityRow(1, Date(1), IF env = "no_aqi" THEN Empty ELSE Num(a)) >>
          /\ station_day = << StationRow(1, Date(1), Num(60)) >>
          /\ stations_csv = IF env = "no_meta" THEN << >> ELSE << MetaRow(1, 1, 1) >>
    /\ \/ files = AllOk
       \/ \E f \in DOMAIN AllOk, st \in { "missing", "malformed" } :
             files = [AllOk EXCEPT ![f] = st]

\* The batch script before it starts.
InitDemo2 ==
    /\ script = "demo2" /\ pc = "import"
    /\ GROQ_API_KEY \in BOOLEAN
    /\ IdleDemo
    /\ shown = {} /\ requests = << >>
    /\ queries = << >> /\ i = 0 /\ call = NoCall /\ slept = 0 /\ summary = NoSummary
    /\ queries_file \in
          { NoFile } \cup
          { [exists |-> TRUE, lines |-> ls] :
              ls \in SeqsUpTo({ Line(FALSE, ""), Line(TRUE, ""), Line(FALSE, "q1"),
                                Line(TRUE, "q2") }, MaxLines) }
    /\ out_log \in { << >>, << OutHeader, OutRow(1, "old", Text("reply", "old"), 0, "SUCCESS") >> }

Init == InitDemo \/ InitDemo2

Next ==
    \/ LoadDatasets \/ Gate \/ ProactiveAlert \/ InitSession \/ ChatTurn
    \/ Sidebar \/ Rerun
    \/ Import \/ ReadQueries \/ WriteHeader \/ Call \/ AppendRow \/ Sleep \/ Summary

Spec == Init /\ [][Next]_vars


(***************************************************************************)
(* Inputs of load_aqi_datasets alone: small tables with every kind of      *)
(* cell, wide tables with more entities than the samples hold, and an      *)
(* unreadable file.                                                        *)
(***************************************************************************)
EntityIds == { 1, 2 }
DateCells == { Garbled, Date(1), Date(2) }

SmallCityTables ==
    SeqsUpTo({ CityRow(c, d, a) : c \in EntityIds, d \in DateCells,
                                  a \in { Empty, Garbled, Num(-3), Num(7) } }, MaxRows)

SmallStationTables ==
    SeqsUpTo({ StationRow(st, d, a) : st \in EntityIds, d \in DateCells,
                                      a \in { Empty, Garbled, Num(-3), Num(7) } }, MaxRows)

\* Station metadata: none, one station, both, names swapped, an id listed
\* twice, a name shared by two ids.
SmallMetas ==
    { << >>,
      << MetaRow(1, 1, 1) >>,
      << MetaRow(1, 1, 1), MetaRow(2, 2, 1) >>,
      << MetaRow(1, 2, 1), MetaRow(2, 1, 2) >>,
      << MetaRow(1, 1, 1), MetaRow(1, 2, 2) >>,
      << MetaRow(1, 1, 1), MetaRow(2, 1, 1) >> }

\* n entities with one row each; the entities of W have the highest AQI.
WideAqi(k, W) == IF k \in W THEN 300 ELSE (k % 3) * 10 + 5
WideCityDay(n, W) == [k \in 1..n |-> CityRow(k, Date(1), Num(WideAqi(k, W)))]
WideStationDay(n, W) == [k \in 1..n |-> StationRow(k, Date(1), Num(WideAqi(k, W)))]
\* Station names in the order of the ids, or in the opposite order.
WideMeta(n, order) ==
    [k \in 1..n |-> MetaRow(k, IF order = "asc" THEN k ELSE n + 1 - k, 1)]

InitLoad ==
    /\ DemoStart
    /\ GROQ_API_KEY = TRUE /\ log_writable = TRUE
    /\ \/ /\ city_day \in SmallCityTables
          /\ station_day = << StationRow(1, Date(1), Num(60)) >>
          /\ stations_csv = << MetaRow(1, 1, 1) >>
       \/ /\ city_day = << CityRow(1, Date(1), Num(50)) >>
          /\ station_day \in SmallStationTables
          /\ stations_csv \in SmallMetas
       \/ \E n \in 1..MaxEntities, order \in { "asc", "desc" } :
          \E W \in { X \in SUBSET (1..n) : Cardinality(X) \in { 1, 2 } } :
             /\ city_day = WideCityDay(n, W)
             /\ station_day = WideStationDay(n, W)
             /\ stations_csv = WideMeta(n, order)
    /\ \/ files = AllOk
       \/ /\ Len(city_day) = 1 /\ Len(station_day) = 1 /\ Len(stations_csv) = 1
          /\ city_day[1].AQI.k = "num" /\ station_day[1].AQI.k = "num"
          /\ \E f \in DOMAIN AllOk, st \in { "missing", "malformed" } :
                files = [AllOk EXCEPT ![f] = st]

SpecLoad == InitLoad /\ [][LoadDatasets]_vars


(***************************************************************************)
(* Properties of the context sampling (SpecLoad).                          *)
(***************************************************************************)
Loaded == pc = "gate" /\ result.error = "none"

\* The largest AQI of a non-empty table.
MaxAqi(df) == CHOOSE m \in { df[k].AQI : k \in 1..Len(df) } :
                 \A k \in 1..Len(df) : df[k].AQI <= m

CityBody == result.city_context.body
StationBody == result.station_context.body

\* How often x occurs in the sequence s.
Count(s, x) == Cardinality({ k \in 1..Len(s) : s[k] = x })

\* C1: whenever the latest city table is non-empty, the first row of the
\* sampled city context is a row of that table whose AQI is the maximum of
\* the whole table.
C1_WorstCityFirst ==
    result.latest_city_data # << >> =>
        LET lcd == result.latest_city_data
        IN  /\ Len(CityBody) >= 1
            /\ \E k \in 1..Len(lcd) :
                  /\ CityBody[1] = << lcd[k].City, lcd[k].Date, lcd[k].AQI >>
                  /\ \A j \in 1..Len(lcd) : lcd[j].AQI <= lcd[k].AQI

\* A table of more than ten cities whose worst city sorts behind the tenth.
C1_Witness ==
    /\ Loaded
    /\ Len(result.latest_city_data) > 10
    /\ CityBody[1][1] > 10
    /\ CityBody[1][3] = MaxAqi(result.latest_city_data)

\* C2 as claimed: whenever the latest station table is non-empty, the
\* sampled station context holds a row with the table's maximum AQI.
C2_WorstStationSampled ==
    result.latest_station_data # << >> =>
        \E k \in 1..Len(StationBody) :
            StationBody[k][4] = MaxAqi(result.latest_station_data)

StationProjection ==
    LET lsd == result.latest_station_data
    IN  [k \in 1..Len(lsd) |-> << lsd[k].StationName, lsd[k].City, lsd[k].Date, lsd[k].AQI >>]

\* C2 amended: the sampled station context is the first 15 rows of the
\* latest station table in ascending StationName order, nameless stations
\* last (all rows when there are at most 15): it is sorted by name, each of
\* its rows is a row of the table, no omitted row has a name before a
\* sampled one, and it holds the maximum-AQI station whenever the table has
\* at most 15 rows.
C2_StationsByName ==
    LET all == StationProjection
        n   == Len(StationBody)
    IN  /\ n = (IF Len(all) <= 15 THEN Len(all) ELSE 15)
        /\ \A k \in 1..(n - 1) : KeyLe(StationBody[k][1], StationBody[k + 1][1])
        /\ \A x \in Range(StationBody) : Count(StationBody, x) <= Count(all, x)
        /\ \A x \in Range(all) :
              Count(StationBody, x) < Count(all, x) =>
                  \A k \in 1..n : KeyLe(StationBody[k][1], x[1])
        /\ (Len(all) >= 1 /\ Len(all) <= 15) =>
              \E k \in 1..n : StationBody[k][4] = MaxAqi(result.latest_station_data)

\* More than fifteen stations, and the worst one is not in the sample.
C2_Witness ==
    /\ Loaded
    /\ Len(result.latest_station_data) > 15
    /\ Len(StationBody) = 15
    /\ \A k \in 1..Len(StationBody) :
          StationBody[k][4] < MaxAqi(result.latest_station_data)

\* C3: the city sample has at most 10 rows, no two of them of the same
\* city, and the station sample has at most 15 rows.
C3_SampleWithinCap ==
    /\ Len(CityBody) <= 10
    /\ Len(StationBody) <= 15
    /\ \A j, k \in 1..Len(CityBody) : CityBody[j][1] = CityBody[k][1] => j = k

\* Both samples are full and both tables hold more rows than the caps.
C3_Witness ==
    /\ Loaded
    /\ Len(result.latest_city_data) > 10 /\ Len(CityBody) = 10
    /\ Len(result.latest_station_data) > 15 /\ Len(StationBody) = 15


(***************************************************************************)
(* Properties of the latest-row selection (SpecLoad), stated on the raw    *)
(* rows.                                                                   *)
(***************************************************************************)
Ids(raw, key) == { raw[k][key] : k \in 1..Len(raw) }

\* The rows of entity e that carry a parseable date.
Dated(raw, key, e) == { k \in 1..Len(raw) : raw[k][key] = e /\ raw[k].Date.k = "date" }

\* The first row, in source order, among the rows of e with its latest date.
LatestIdx(raw, key, e) ==
    LET latest == { k \in Dated(raw, key, e) :
                      \A j \in Dated(raw, key, e) : raw[j].Date.v <= raw[k].Date.v }
    IN  CHOOSE k \in latest : \A j \in latest : k <= j

\* The rows of a latest table that belong to entity e.
RowsOf(df, key, e) == { k \in 1..Len(df) : df[k][key] = e }

\* C4 as claimed: the latest table holds exactly one row per entity of the
\* input, and that row carries the entity's maximum date.
C4_OneRowPerEntity ==
    pc = "gate" =>
        /\ \A c \in Ids(city_day, "City") :
              /\ Cardinality(RowsOf(result.latest_city_data, "City", c)) = 1
              /\ \A k \in RowsOf(result.latest_city_data, "City", c), j \in 1..Len(city_day) :
                    city_day[j].City = c => ToDatetime(city_day[j].Date)
                                              <= result.latest_city_data[k].Date
        /\ \A st \in Ids(station_day, "StationId") :
              /\ Cardinality(RowsOf(result.latest_station_data, "StationId", st)) = 1
              /\ \A k \in RowsOf(result.latest_station_data, "StationId", st),
                    j \in 1..Len(station_day) :
                    station_day[j].StationId = st => ToDatetime(station_day[j].Date)
                                                       <= result.latest_station_data[k].Date

\* The load succeeds: the files are readable, every entity has a parseable
\* date, and the latest row of at least one city has an AQI.
LoadSucceeds ==
    /\ \A f \in DOMAIN files : files[f] = "ok"
    /\ \A c \in Ids(city_day, "City") : Dated(city_day, "City", c) # {}
    /\ \A st \in Ids(station_day, "StationId") : Dated(station_day, "StationId", st) # {}
    /\ \E c \in Ids(city_day, "City") : city_day[LatestIdx(city_day, "City", c)].AQI.k # "nan"

\* The rows entity e has in the latest table df are `copies` copies of its
\* latest source row, or none when that row has no AQI.
HoldsLatest(df, raw, key, e, copies) ==
    LET l == LatestIdx(raw, key, e)
    IN  IF raw[l].AQI.k = "nan" THEN RowsOf(df, key, e) = {}
        ELSE /\ Cardinality(RowsOf(df, key, e)) = copies
             /\ \A k \in RowsOf(df, key, e) : df[k].idx = l /\ df[k].Date = raw[l].Date.v

\* C4 amended: when the load succeeds, the latest city table holds for each
\* city of the input exactly its latest row (the first in source order among
\* the rows with the city's maximum date) if that row has an AQI and no row
\* otherwise; the latest station table holds each station's latest row under
\* the same condition, once per row the station metadata has for its
\* StationId (once if it has none).  When the load fails, both are empty.
C4_LatestRowPerEntity ==
    pc = "gate" =>
        IF ~LoadSucceeds
        THEN result.latest_city_data = << >> /\ result.latest_station_data = << >>
        ELSE /\ \A k \in 1..Len(result.latest_city_data) :
                   result.latest_city_data[k].City \in Ids(city_day, "City")
             /\ \A k \in 1..Len(result.latest_station_data) :
                   result.latest_station_data[k].StationId \in Ids(station_day, "StationId")
             /\ \A c \in Ids(city_day, "City") :
                   HoldsLatest(result.latest_city_data, city_day, "City", c, 1)
             /\ \A st \in Ids(station_day, "StationId") :
                   LET listed == Cardinality(RowsOf(stations_csv, "StationId", st))
                   IN  HoldsLatest(result.latest_station_data, station_day, "StationId", st,
                                   IF listed = 0 THEN 1 ELSE listed)

\* Two cities: the latest row of one has no AQI and the table holds only
\* the other.
C4_Witness ==
    /\ Loaded
    /\ Cardinality(Ids(city_day, "City")) = 2
    /\ Len(result.latest_city_data) = 1
    /\ \E c \in Ids(city_day, "City") :
          city_day[LatestIdx(city_day, "City", c)].AQI.k = "nan"


(***************************************************************************)
(* Properties of the interactive application (Spec).                       *)
(***************************************************************************)
Tiers == << "GOOD", "MODERATE", "POOR", "VERY_POOR", "SEVERE" >>
Severity(tier) == CHOOSE n \in 1..5 : Tiers[n] = tier

\* The tier the thresholds 101/201/301/401 give: one step per threshold
\* the value reaches.
TierByThresholds(aqi) ==
    Tiers[1 + Cardinality({ t \in { 101, 201, 301, 401 } : aqi >= t })]

AlertRendered == script = "demo" /\ pc \in { "session", "chat", "sidebar" }

\* C5: the alert rendered for the worst city is the tier its AQI has by the
\* thresholds 401/301/201/101, inclusive at the lower bound, GOOD below 101
\* (also for 0 and negative values); one tier is rendered per run, and over
\* the AQI values around the thresholds the tier never decreases as the AQI
\* grows.
C5_AlertTierByThresholds ==
    /\ AlertRendered => alert \in Range(Tiers)
    /\ alert # "none" =>
          alert = TierByThresholds(MaxAqi(result.latest_city_data))
    /\ \A a, b \in AlertAqis :
          a < b => Severity(AlertTier(a)) <= Severity(AlertTier(b))

\* The worst AQI sits exactly on the lower bound of a tier.
C5_Witness ==
    /\ AlertRendered
    /\ MaxAqi(result.latest_city_data) = 301
    /\ alert = "VERY_POOR"

\* C6: a chat turn, also one whose ChatClient call fails, lets no exception
\* escape, appends to the history exactly the user turn followed by one
\* assistant turn, leaves the earlier entries as they were, and goes on to
\* the rest of the run; the assistant turn of a failed call is the error
\* text embedding the failure reason.  No step of the session changes or
\* removes an entry the history already holds.
C6_ChatTurnAlwaysReplies ==
    [][ /\ Len(messages'.list) >= Len(messages.list)
        /\ SubSeq(messages'.list, 1, Len(messages.list)) = messages.list
        /\ (script = "demo" /\ pc = "chat" /\ widget.kind = "chat") =>
          LET n == Len(messages.list)
          IN  /\ ~uncaught'
              /\ pc' = "sidebar"
              /\ Len(messages'.list) = n + 2
              /\ SubSeq(messages'.list, 1, n) = messages.list
              /\ messages'.list[n + 1] =
                    [role |-> "user", content |-> Text("query", widget.query)]
              /\ messages'.list[n + 2].role = "assistant"
              /\ (Len(requests') = Len(requests) + 1 /\ requests'[Len(requests')].outcome # "ok")
                    => messages'.list[n + 2].content =
                          Text("api_error", requests'[Len(requests')].outcome)
              /\ (Len(requests') = Len(requests) + 1 /\ requests'[Len(requests')].outcome = "ok")
                    => messages'.list[n + 2].content.kind = "reply"
      ]_vars

\* A failed turn followed by a successful one.
C6_Witness ==
    /\ script = "demo" /\ ~uncaught
    /\ Len(messages.list) = 5
    /\ messages.list[3].content = Text("api_error", "timeout")
    /\ messages.list[5].content.kind = "reply"
    /\ Len(requests) = 2 /\ requests[1].outcome = "timeout"


(***************************************************************************)
(* Properties of the batch script (Spec).                                  *)
(***************************************************************************)
InLoop == script = "demo2" /\ pc \in { "call", "append", "sleep", "summary", "done" }

\* The result rows of the log: the lines behind the header.
ResultRows == Tail(out_log)

RECURSIVE SumOver(_, _)
SumOver(S, rows) ==
    IF S = {} THEN 0
    ELSE LET k == CHOOSE x \in S : TRUE
         IN  rows[k].TRT + SumOver(S \ {k}, rows)

\* num/den is a median of the response times of the rows in S: at least
\* half of them are not above it and at least half are not below it.
IsMedian(num, den, S, rows) ==
    /\ 2 * Cardinality({ k \in S : rows[k].TRT * den <= num }) >= Cardinality(S)
    /\ 2 * Cardinality({ k \in S : rows[k].TRT * den >= num }) >= Cardinality(S)

C8_IncrementalLog ==
    script = "demo2" =>
        /\ pc \in { "import", "exit", "main", "returned", "header" } => requests = << >>
        /\ InLoop => /\ out_log[1] = OutHeader
                     /\ \A k \in 2..Len(out_log) : out_log[k].kind = "row"
        /\ pc = "call"   => Len(out_log) = 1 + i /\ Len(requests) = i /\ slept = i
        /\ pc = "append" => Len(out_log) = 1 + i /\ Len(requests) = i + 1 /\ slept = i
        /\ pc = "sleep"  => Len(out_log) = 2 + i /\ Len(requests) = i + 1 /\ slept = i

\* The second call is about to start over a log file that held older lines.
C8_Witness ==
    /\ script = "demo2" /\ pc = "call" /\ i = 1
    /\ out_log = << OutHeader, ResultRows[1] >>
    /\ ResultRows[1].User_Query = queries[1]
    /\ Len(requests) = 1 /\ slept = 1

(***************************************************************************)
(* Properties of the two fatal conditions (Spec).                          *)
(***************************************************************************)
\* C9 as claimed: without a key no request is issued, the batch script
\* stops at its import, and the application processes no chat turn.
C9_MissingKeyFatal ==
    ~GROQ_API_KEY =>
        /\ requests = << >>
        /\ script = "demo2" => pc \in { "import", "exit" }
        /\ script = "demo" => \A k \in 1..Len(messages.list) : messages.list[k].role # "user"

\* C9 amended: without a key no ChatClient request is ever issued.  The
\* batch script reports it and exits at its import, before it reads a query
\* or writes a line.  The application does not halt: it processes every chat
\* turn and every batch query, and answers each with the text that reports
\* the missing key.
C9_MissingKeyNoRequest ==
    ~GROQ_API_KEY =>
        /\ requests = << >>
        /\ script = "demo2" =>
              /\ pc \in { "import", "exit" }
              /\ pc = "exit" => "FATAL ERROR: GROQ_API_KEY not found" \in shown
              /\ queries = << >> /\ slept = 0 /\ ~summary.printed
        /\ script = "demo" =>
              /\ ~uncaught
              /\ \A k \in 2..Len(messages.list) :
                    \/ messages.list[k].role = "user"
                    \/ /\ messages.list[k].role = "assistant"
                       /\ messages.list[k].content.kind = "no_key"
                       /\ messages.list[k - 1].role = "user"
              /\ \A k \in 1..Len(chat_log) :
                    chat_log[k].role \in { "assistant", "batch_assistant" } =>
                        chat_log[k].content.kind = "no_key"

\* Without a key the application has processed a chat turn and the batch
\* tool's two queries.
C9_Witness ==
    /\ ~GROQ_API_KEY /\ script = "demo" /\ pc = "idle"
    /\ Len(messages.list) = 3
    /\ messages.list[2].role = "user"
    /\ messages.list[3].content.kind = "no_key"
    /\ \E k \in 1..Len(chat_log) : chat_log[k].role = "batch_assistant"

LoadFailed == script = "demo" /\ cache.set /\ cache.value.error # "none"

\* C10: if one of the three files is missing or malformed, the load returns
\* no partial dataset (no contexts, empty latest tables, empty name lists),
\* the failure is reported, and the session renders nothing further: no
\* alert, no chat history, no chat turn, no batch query, in this run and in
\* every later one.
C10_LoadFailureBlocks ==
    /\ (script = "demo" /\ cache.set /\ \E f \in DOMAIN files : files[f] # "ok")
          => cache.value.error \in { "FileNotFoundError", "Exception" }
    /\ LoadFailed =>
          /\ ~cache.value.city_context.present /\ ~cache.value.station_context.present
          /\ cache.value.latest_city_data = << >> /\ cache.value.latest_station_data = << >>
          /\ cache.value.cities = << >> /\ cache.value.stations = << >>
          /\ result = cache.value
          /\ pc \in { "start", "gate", "idle" }
          /\ pc \in { "gate", "idle" } => shown \cap { "Missing file", "Error loading data" } # {}
          /\ alert = "none" /\ ~messages.set /\ messages.list = << >>
          /\ requests = << >> /\ chat_log = << >> /\ ~uncaught

\* The station metadata is malformed; the user submitted a chat input and
\* the batch button, and neither run did anything.
C10_Witness ==
    /\ script = "demo" /\ files["stations"] = "malformed"
    /\ pc = "idle" /\ runs = 3 /\ widget.kind = "batch" /\ widget.lines # << >>
    /\ "Error loading data" \in shown
    /\ ~messages.set /\ requests = << >>


(***************************************************************************)
(* Properties of the AQI coercion (SpecLoad).                              *)
(***************************************************************************)
\* The AQI values of a latest table.
AqiValues(df) == { df[k].AQI : k \in 1..Len(df) }

\* C11 as claimed: every AQI value of the latest city table and of the
\* latest station table is a number that is not negative.
C11_AqiNonNegative ==
    \A a \in AqiValues(result.latest_city_data) \cup AqiValues(result.latest_station_data) :
        a \in Int /\ a >= 0

\* The AQI of a row of a latest table is what the coercion makes of the cell
\* of its source row: the number itself, whatever its sign, for a numeric
\* cell, 0 for text; the cell is never an empty one.
CoercedFrom(r, raw) ==
    LET cell == raw[r.idx].AQI
    IN  /\ r.AQI \in Int
        /\ cell.k # "nan"
        /\ cell.k = "num" => r.AQI = cell.v
        /\ cell.k = "text" => r.AQI = 0

\* C11 amended: every AQI value of the latest city and station tables is a
\* number; it is 0 where the source cell is not numeric, the source value
\* unchanged (a negative value stays negative) where it is numeric, and no
\* row of either table comes from a source row whose AQI is missing.
C11_AqiCoerced ==
    /\ \A k \in 1..Len(result.latest_city_data) :
          CoercedFrom(result.latest_city_data[k], city_day)
    /\ \A k \in 1..Len(result.latest_station_data) :
          CoercedFrom(result.latest_station_data[k], station_day)

\* Two cities, the AQI of one negative and that of the other text: the
\* latest city table holds the negative value and a 0.
C11_Witness ==
    /\ Loaded
    /\ Len(result.latest_city_data) = 2
    /\ \E k, j \in 1..2 :
          /\ city_day[result.latest_city_data[k].idx].AQI.k = "num"
          /\ result.latest_city_data[k].AQI < 0
          /\ city_day[result.latest_city_data[j].idx].AQI.k = "text"
          /\ result.latest_city_data[j].AQI = 0


(***************************************************************************)
(* Properties of the requests sent to the ChatClient (Spec).               *)
(***************************************************************************)
\* What load_aqi_datasets returns for the datasets of a session.
SessionResults ==
    { LoadAqiDatasets(AllOk, << CityRow(1, Date(1), Num(a)) >>,
                      << StationRow(1, Date(1), Num(60)) >>, << MetaRow(1, 1, 1) >>) :
        a \in AlertAqis }

\* The request the application sends for a query over the loaded data res.
InteractiveRequest(res, user_query, outcome) ==
    GetGroqResponse(TRUE, res, user_query, outcome).sent[1]

\* The system prompt embeds the contexts, counts and previews of res and
\* the four rules.
Grounded(system, res) ==
    /\ system.template = "grounded"
    /\ system.city_context = res.city_context /\ system.city_context.present
    /\ system.station_context = res.station_context /\ system.station_context.present
    /\ system.n_cities = Len(res.cities) /\ system.n_stations = Len(res.stations)
    /\ system.city_preview = HeadRows(res.cities, NamePreview)
    /\ system.station_preview = HeadRows(res.stations, NamePreview)
    /\ system.rules = 4

\* C12 as claimed: every request of the batch script is the request the
\* application would send for that query, its system prompt embedding the
\* sampled contexts, the counts, the previews and the four rules.
C12_BatchSendsGroundedRequest ==
    script = "demo2" =>
        \A k \in 1..Len(requests) :
            \E res \in SessionResults :
                /\ requests[k] = InteractiveRequest(res, queries[k], requests[k].outcome)
                /\ Grounded(requests[k].system, res)

\* C12 amended: for every query the request of the batch script names the
\* same model and carries the same user query as the request of the
\* application, and differs from it in the system prompt alone: the batch
\* script sends a fixed minimal prompt that embeds no context, count,
\* preview or rule, whatever the data; the application sends the prompt
\* embedding the contexts, counts and previews of the loaded data and the
\* four rules.
C12_BatchSendsMinimalPrompt ==
    /\ script = "demo2" =>
          \A k \in 1..Len(requests) :
              /\ requests[k].model = MODEL_NAME
              /\ requests[k].user = queries[k]
              /\ requests[k].system = MinimalPrompt
              /\ DOMAIN requests[k].system = { "template", "model" }
              /\ \A res \in SessionResults :
                    LET r == InteractiveRequest(res, queries[k], requests[k].outcome)
                    IN  /\ requests[k] # r
                        /\ requests[k] = [r EXCEPT !.system = MinimalPrompt]
    /\ script = "demo" =>
          \A k \in 1..Len(requests) :
              /\ requests[k].model = MODEL_NAME
              /\ requests[k].user \in QueryTexts
              /\ Grounded(requests[k].system, cache.value)
              /\ requests[k] = InteractiveRequest(cache.value, requests[k].user,
                                                  requests[k].outcome)

\* The batch script has sent its two queries, each under the minimal
\* prompt.
C12_Witness ==
    /\ script = "demo2" /\ pc = "done"
    /\ Len(requests) = 2 /\ queries = << "q1", "q2" >>
    /\ requests[1].system = MinimalPrompt /\ requests[1].user = "q1"
    /\ requests[2].system = MinimalPrompt /\ requests[2].user = "q2"
    /\ \E res \in SessionResults : Grounded(InteractiveRequest(res, "q1", "ok").system, res)

=============================================================================
